---- MODULE Spec2Model ----
(***************************************************************************)
(* Model of the cost-library ingestion tool: ExcelProcessor (text          *)
(* cleaning, row classification, price resolution, header discovery) and   *)
(* DataIngestionApp.process_data / _process_sheet (the sheet walk).        *)
(*                                                                         *)
(* Python str values are sequences of one-character strings; the          *)
(* characters are those of Latin-1 (U+0001 to U+00FF), with Python's       *)
(* character classes on that range.  Python values that may be of several  *)
(* types are tagged records (None, Str, Num, NaN, Date).  A number cell    *)
(* Num(n) holds n tenths, so 12.5 is Num(125).  A float computed by the    *)
(* program is Finite(m, e), the value m * 10^e with m not a multiple of    *)
(* 10 (zero is Finite(0, 0)), or Subnormal(negative, units), a whole       *)
(* number of units of 2^-1074, or Inf, NegInf or NaN; mantissas have at    *)
(* most 9 digits.                                                          *)
(***************************************************************************)
EXTENDS Integers, Sequences, FiniteSets, TLC

VARIABLES
    pc,                     \* position in process_data / _process_sheet
    discipline,             \* self.discipline.get()
    db_path,                \* self.db_path.get()
    excel_path,             \* self.excel_path
    db_tables,              \* tables of the database file at db_path
    sheet_lengths,          \* len(df) of each sheet in excel_file.sheet_names
    sheet_no,               \* 1-based index of the sheet being (or last) processed
    columns,                \* df.columns of the current sheet (header texts)
    column_indices,         \* find_column_indices(df.columns)
    row_no,                 \* number of rows of the current sheet iterated so far
    row,                    \* the row of the current loop iteration
    processed_row,          \* process_row(row, column_indices)
    category_counter,       \* process_data's local category_counter
    sheet_category_counter, \* _process_sheet's parameter category_counter
    current_category_id,    \* _process_sheet's local current_category_id
    found_categories,       \* process_data's dict, shared with _process_sheet
    emitted,                \* calls made to insert_category / insert_cost_element
    error_log,              \* messages given to error_log.log
    text_in,                \* argument of a clean_text call
    text_out,               \* result of clean_text(text_in)
    text_out2,              \* result of clean_text(text_out)
    price_in,               \* arguments of a get_max_price call
    price_out               \* outcome of get_max_price(price_in)

vars == <<pc, discipline, db_path, excel_path, db_tables, sheet_lengths, sheet_no, columns, column_indices, row_no, row,
          processed_row, category_counter, sheet_category_counter,
          current_category_id, found_categories, emitted, error_log,
          text_in, text_out, text_out2, price_in, price_out>>

ingest_vars == <<sheet_lengths, sheet_no, columns, column_indices, row_no, row,
                 processed_row, category_counter, sheet_category_counter,
                 current_category_id, found_categories, emitted, error_log>>

app_vars == <<discipline, db_path, excel_path, db_tables>>

text_vars == <<text_in, text_out, text_out2>>

price_vars == <<price_in, price_out>>

----------------------------------------------------------------------------
(* Bounds *)

MaxSheets == 2      \* sheets in a workbook
MaxRows == 2        \* data rows in a workbook, all sheets together
MaxLen == 4         \* length of the generated clean_text inputs
MaxInitErrors == 1  \* "Error initializing database" entries in the log

----------------------------------------------------------------------------
(* Python values *)

None == [k |-> "None"]
NaN == [k |-> "nan"]
Date == [k |-> "date"]
Str(s) == [k |-> "str", s |-> s]
Num(n) == [k |-> "num", n |-> n]

\* the uppercase letters, and at the same index the lowercase form of each
UpperChars == <<"A","B","C","D","E","F","G","H","I","J","K","L","M",
                "N","O","P","Q","R","S","T","U","V","W","X","Y","Z",
                "À","Á","Â","Ã","Ä","Å","Æ","Ç","È","É","Ê","Ë","Ì",
                "Í","Î","Ï","Ð","Ñ","Ò","Ó","Ô","Õ","Ö","Ø","Ù","Ú",
                "Û","Ü","Ý","Þ">>
LowerChars == <<"a","b","c","d","e","f","g","h","i","j","k","l","m",
                "n","o","p","q","r","s","t","u","v","w","x","y","z",
                "à","á","â","ã","ä","å","æ","ç","è","é","ê","ë","ì",
                "í","î","ï","ð","ñ","ò","ó","ô","õ","ö","ø","ù","ú",
                "û","ü","ý","þ">>

\* lowercase letters whose uppercase form is not one character of the range
UnpairedLowerChars == {"ª", "µ", "º", "ß", "ÿ"}

\* the decimal digits
DigitChars == <<"0","1","2","3","4","5","6","7","8","9">>

\* characters that str.isdigit() accepts and that are not decimal digits
SuperscriptDigits == {"¹", "²", "³"}

\* characters that str.isalnum() accepts and that are neither letters nor digits
FractionChars == {"¼", "½", "¾"}

\* the characters str.strip(), str.split() and the pattern \s take as
\* whitespace: U+0009 to U+000D, U+001C to U+001F, U+0020, U+0085, U+00A0
Whitespace == {"\t", "\n", "", "\f", "\r", "", "", "", "", " ", "", " "}

\* each uppercase letter with its lowercase form
ToLower ==
    [c \in {UpperChars[i] : i \in 1..Len(UpperChars)} |->
        LowerChars[CHOOSE i \in 1..Len(UpperChars) : UpperChars[i] = c]]

LowerSet == {LowerChars[i] : i \in 1..Len(LowerChars)} \cup UnpairedLowerChars
DecimalSet == {DigitChars[i] : i \in 1..Len(DigitChars)}

isupper(c) == c \in DOMAIN ToLower
islower(c) == c \in LowerSet
isalpha(c) == isupper(c) \/ islower(c)
isdecimal_char(c) == c \in DecimalSet
isdigit_char(c) == isdecimal_char(c) \/ c \in SuperscriptDigits
isalnum(c) == isalpha(c) \/ isdigit_char(c) \/ c \in FractionChars

lower_char(c) == IF isupper(c) THEN ToLower[c] ELSE c

lower(s) == [i \in 1..Len(s) |-> lower_char(s[i])]

DigitVal(c) == (CHOOSE i \in 1..10 : DigitChars[i] = c) - 1

RECURSIVE lstrip(_, _)
lstrip(s, chars) ==
    IF s # <<>> /\ Head(s) \in chars THEN lstrip(Tail(s), chars) ELSE s

RECURSIVE rstrip(_, _)
rstrip(s, chars) ==
    IF s # <<>> /\ s[Len(s)] \in chars
    THEN rstrip(SubSeq(s, 1, Len(s) - 1), chars)
    ELSE s

strip(s, chars) == rstrip(lstrip(s, chars), chars)

\* length of the leading run of non-whitespace characters of s
RECURSIVE WordLen(_)
WordLen(s) ==
    IF s = <<>> \/ Head(s) \in Whitespace THEN 0 ELSE 1 + WordLen(Tail(s))

RECURSIVE split(_)
split(s) ==
    LET t == lstrip(s, Whitespace)
    IN  IF t = <<>> THEN <<>>
        ELSE <<SubSeq(t, 1, WordLen(t))>> \o split(SubSeq(t, WordLen(t) + 1, Len(t)))

RECURSIVE join(_, _)
join(sep, words) ==
    IF words = <<>> THEN <<>>
    ELSE IF Len(words) = 1 THEN words[1]
    ELSE words[1] \o sep \o join(sep, Tail(words))

\* text.replace('.', '')
RECURSIVE remove_dots(_)
remove_dots(s) ==
    IF s = <<>> THEN <<>>
    ELSE IF Head(s) = "." THEN remove_dots(Tail(s))
    ELSE <<Head(s)>> \o remove_dots(Tail(s))

isdigit(s) == s # <<>> /\ \A i \in 1..Len(s) : isdigit_char(s[i])

\* needle in haystack
contains(haystack, needle) ==
    \E i \in 0..(Len(haystack) - Len(needle)) :
        SubSeq(haystack, i + 1, i + Len(needle)) = needle

RECURSIVE NatDigits(_)
NatDigits(n) ==
    IF n < 10 THEN <<DigitChars[n + 1]>>
    ELSE NatDigits(n \div 10) \o <<DigitChars[(n % 10) + 1]>>

\* f"{n:03d}"
format_03d(n) ==
    LET d == NatDigits(n)
    IN  IF Len(d) >= 3 THEN d ELSE [i \in 1..(3 - Len(d)) |-> "0"] \o d

\* str(x) of a float held in tenths: 3.0 -> "3.0", -12.5 -> "-12.5"
float_str(n) ==
    LET a == IF n < 0 THEN 0 - n ELSE n
    IN  (IF n < 0 THEN <<"-">> ELSE <<>>)
            \o NatDigits(a \div 10) \o <<".">> \o NatDigits(a % 10)

DateText == <<"2","0","2","4","-","0","1","-","0","1"," ","0","0",":","0","0",":","0","0">>

\* str(cell) of a cell value read by pandas
str(v) ==
    CASE v.k = "str" -> v.s
      [] v.k = "num" -> float_str(v.n)
      [] v.k = "nan" -> <<"n","a","n">>
      [] v.k = "date" -> DateText
      [] v.k = "None" -> <<"N","o","n","e">>

\* pd.notna(v)
notna(v) == v.k \notin {"nan", "None"}

----------------------------------------------------------------------------
(* ExcelProcessor.INVALID_PATTERNS, matched with re.IGNORECASE by search() *)

startswith_ci(s, lit) ==
    Len(s) >= Len(lit) /\ lower(SubSeq(s, 1, Len(lit))) = lower(lit)

drop(s, n) == SubSeq(s, n + 1, Len(s))

\* <lit>\s*:  at the start of s
LitThenColon(s, lit) ==
    /\ startswith_ci(s, lit)
    /\ LET r == lstrip(drop(s, Len(lit)), Whitespace)
       IN  r # <<>> /\ Head(r) = ":"

\* <lit>\s+  at the start of s
LitThenSpace(s, lit) ==
    /\ startswith_ci(s, lit)
    /\ Len(s) > Len(lit)
    /\ s[Len(lit) + 1] \in Whitespace

PatternCount == 9

\* COMPILED_PATTERNS[k - 1].search(text); every pattern begins with ^\s*
pattern_search(k, text) ==
    LET t == lstrip(text, Whitespace)
    IN  CASE k = 1 -> t # <<>> /\ Head(t) = "*"
          [] k = 2 -> \/ LitThenColon(t, <<"N","O","T","E">>)
                      \/ LitThenColon(t, <<"N","O","T","E","S">>)
          [] k = 3 -> LitThenSpace(t, <<"T","O"," ","B","E">>)
          [] k = 4 -> startswith_ci(t, <<"G","U","I","D","E">>)
          [] k = 5 -> LitThenColon(t, <<"I","M","P","O","R","T","A","N","T">>)
          [] k = 6 -> LitThenColon(t, <<"W","A","R","N","I","N","G">>)
          [] k = 7 -> LitThenColon(t, <<"C","A","U","T","I","O","N">>)
          [] k = 8 -> \/ LitThenColon(t, <<"N","B">>)
                      \/ LitThenColon(t, <<"N",".","B">>)
                      \/ LitThenColon(t, <<"N","B",".">>)
                      \/ LitThenColon(t, <<"N",".","B",".">>)
          [] k = 9 -> \/ LitThenSpace(t, <<"s","e","e">>)
                      \/ LitThenSpace(t, <<"(","s","e","e">>)

matches_invalid_pattern(text) == \E k \in 1..PatternCount : pattern_search(k, text)

----------------------------------------------------------------------------
(* ExcelProcessor.clean_text and the two name validators *)

\* argument and result are None or Str(_)
clean_text(text) ==
    IF text.k # "str" \/ text.s = <<>> THEN None
    ELSE LET t1 == strip(text.s, Whitespace)
             t2 == join(<<" ">>, split(t1))
             t3 == strip(t2, {"*", ":", "-", "."})
             t4 == strip(t3, Whitespace)
         IN  IF t4 = <<>> THEN None ELSE Str(t4)

is_valid_category_name(text) ==
    IF text = <<>> \/ Len(strip(text, Whitespace)) < 2 THEN FALSE
    ELSE IF matches_invalid_pattern(text) THEN FALSE
    ELSE IF ~isalnum(text[1]) THEN FALSE
    ELSE IF isdigit(remove_dots(text)) THEN FALSE
    ELSE TRUE

is_valid_item_name(text) ==
    IF text = <<>> \/ Len(strip(text, Whitespace)) < 2 THEN FALSE
    ELSE IF matches_invalid_pattern(text) THEN FALSE
    ELSE TRUE

----------------------------------------------------------------------------
(* ExcelProcessor.find_column_indices; indices are 0-based as in the code *)

header_text(h) == IF notna(h) THEN lower(strip(str(h), Whitespace)) ELSE <<>>

\* first_index with 0 as the default of next() in place of None
first_index_default_zero(headers, key) ==
    LET hits == {i \in 1..Len(headers) : contains(header_text(headers[i]), key)}
    IN  IF hits = {} THEN Num(0)
        ELSE Num((CHOOSE i \in hits : \A j \in hits : i <= j) - 1)

\* next((i for i, h in enumerate(headers) if key in h), None)
first_index(headers, key) ==
    LET hits == {i \in 1..Len(headers) : contains(header_text(headers[i]), key)}
    IN  IF hits = {} THEN None
        ELSE Num((CHOOSE i \in hits : \A j \in hits : i <= j) - 1)

find_column_indices(headers) ==
    << first_index(headers, <<"i","t","e","m">>),
       first_index(headers, <<"u","n","i","t">>),
       first_index(headers, <<"n","a","t","i","o","n","a","l">>),
       first_index(headers, <<"s","a">>) >>

\* row.iloc[i] for a 0-based position
iloc(r, i) == r[i + 1]

----------------------------------------------------------------------------
(* ExcelProcessor.process_row *)

\* process_row without the test that the first cell starts with a letter
process_row_ungated(r, indices) ==
    LET unit_idx == indices[2]
        national_idx == indices[3]
        sa_idx == indices[4]
        first_cell == strip(str(iloc(r, 0)), Whitespace)
        cleaned_text == clean_text(Str(first_cell))
    IN  IF first_cell = <<>> THEN None
        ELSE IF cleaned_text = None THEN None
        ELSE IF is_valid_category_name(cleaned_text.s)
             THEN [type |-> "category", name |-> cleaned_text.s]
        ELSE IF is_valid_item_name(cleaned_text.s)
             THEN [type |-> "item",
                   name |-> cleaned_text.s,
                   unit |-> IF unit_idx # None
                            THEN strip(str(iloc(r, unit_idx.n)), Whitespace)
                            ELSE <<>>,
                   national_price |-> IF national_idx # None
                                      THEN iloc(r, national_idx.n) ELSE Num(0),
                   sa_price |-> IF sa_idx # None
                                THEN iloc(r, sa_idx.n) ELSE Num(0)]
        ELSE None

process_row(r, indices) ==
    LET unit_idx == indices[2]
        national_idx == indices[3]
        sa_idx == indices[4]
        first_cell == strip(str(iloc(r, 0)), Whitespace)
        cleaned_text == clean_text(Str(first_cell))
    IN  IF first_cell = <<>> \/ ~isalpha(first_cell[1]) THEN None
        ELSE IF cleaned_text = None THEN None
        ELSE IF is_valid_category_name(cleaned_text.s)
             THEN [type |-> "category", name |-> cleaned_text.s]
        ELSE IF is_valid_item_name(cleaned_text.s)
             THEN [type |-> "item",
                   name |-> cleaned_text.s,
                   unit |-> IF unit_idx # None
                            THEN strip(str(iloc(r, unit_idx.n)), Whitespace)
                            ELSE <<>>,
                   national_price |-> IF national_idx # None
                                      THEN iloc(r, national_idx.n) ELSE Num(0),
                   sa_price |-> IF sa_idx # None
                                THEN iloc(r, sa_idx.n) ELSE Num(0)]
        ELSE None

----------------------------------------------------------------------------
(* ExcelProcessor.get_max_price *)

RECURSIVE DigitsVal(_)
DigitsVal(s) ==
    IF s = <<>> THEN 0
    ELSE 10 * DigitsVal(SubSeq(s, 1, Len(s) - 1)) + DigitVal(s[Len(s)])

RECURSIVE Pow10(_)
Pow10(n) == IF n = 0 THEN 1 ELSE 10 * Pow10(n - 1)

Abs(n) == IF n < 0 THEN 0 - n ELSE n

\* the float values: m * 10^e, the two infinities and NaN
Finite(m, e) == [k |-> "float", m |-> m, e |-> e]
Inf == [k |-> "inf"]
NegInf == [k |-> "-inf"]

\* m * 10^e with the trailing zeros of m moved into the exponent
RECURSIVE normal(_, _)
normal(m, e) ==
    IF m = 0 THEN Finite(0, 0)
    ELSE IF m % 10 = 0 THEN normal(m \div 10, e + 1)
    ELSE Finite(m, e)

\* the power of ten above a non-zero x: 10^(magnitude - 1) <= |x| < 10^magnitude
magnitude(x) == Len(NatDigits(Abs(x.m))) + x.e

\* the mantissa of a non-zero x written with nine digits
leading9(x) == Abs(x.m) * Pow10(9 - Len(NatDigits(Abs(x.m))))

\* a float below the smallest normal one (2.2250738585072014e-308) is a
\* whole number of units of 2^-1074, held as the decimal digits of that
\* number
Subnormal(negative, units) ==
    [k |-> "subnormal", negative |-> negative, units |-> units]

\* 2^1074 in base 10000, the least significant place first
TwoTo1074 ==
    << 4784, 9349, 7410, 7707, 6330, 62, 8646, 2750, 1863, 2532, 3050, 6152,
       3414, 5233, 7695, 2358, 5651, 8100, 6340, 5955, 6491, 3355, 1810, 6986,
       4692, 8342, 74, 8562, 4506, 4727, 7678, 3976, 3412, 3216, 4209, 9077,
       4466, 6136, 5663, 4276, 1742, 9215, 8509, 4073, 3999, 7013, 7686, 7934,
       7385, 873, 3898, 1911, 1681, 8643, 7077, 9518, 1244, 1437, 8370, 9603,
       6891, 9534, 5679, 339, 2743, 3580, 6901, 1835, 1421, 9764, 5664, 495,
       7307, 1891, 3467, 2495, 1835, 3106, 3307, 225, 2024 >>

\* a natural number in base 10000, the least significant place first
RECURSIVE IntLimbs(_)
IntLimbs(n) ==
    IF n < 10000 THEN <<n>> ELSE <<n % 10000>> \o IntLimbs(n \div 10000)

first_place(s) == IF s = <<>> THEN 0 ELSE Head(s)
rest(s) == IF s = <<>> THEN <<>> ELSE Tail(s)
reverse(s) == [i \in 1..Len(s) |-> s[Len(s) - i + 1]]

\* a * d + carry in the given base, for one place d
RECURSIVE times_place(_, _, _, _)
times_place(a, d, carry, base) ==
    IF a = <<>> THEN (IF carry = 0 THEN <<>> ELSE <<carry>>)
    ELSE <<(Head(a) * d + carry) % base>>
         \o times_place(Tail(a), d, (Head(a) * d + carry) \div base, base)

\* a + b + carry in the given base
RECURSIVE plus(_, _, _, _)
plus(a, b, carry, base) ==
    IF a = <<>> /\ b = <<>> THEN (IF carry = 0 THEN <<>> ELSE <<carry>>)
    ELSE <<(first_place(a) + first_place(b) + carry) % base>>
         \o plus(rest(a), rest(b),
                 (first_place(a) + first_place(b) + carry) \div base, base)

\* a * n in base 10000
RECURSIVE times(_, _)
times(a, n) ==
    IF n = <<>> THEN <<>>
    ELSE plus(times_place(a, Head(n), 0, 10000),
              <<0>> \o times(a, Tail(n)), 0, 10000)

\* the decimal digits, the most significant first, of a number in base
\* 10000
decimal_digits(limbs) ==
    [i \in 1..(4 * Len(limbs)) |->
        (limbs[Len(limbs) - ((i - 1) \div 4)] \div Pow10(3 - ((i - 1) % 4))) % 10]

pad_left(a, n) ==
    IF Len(a) >= n THEN a ELSE [i \in 1..(n - Len(a)) |-> 0] \o a

\* the quotient q, one more when the remainder r is above half, or is
\* half and q is odd (decimal digits, the most significant first)
round_half_even(q, r) ==
    IF \/ r[1] > 5
       \/ r[1] = 5 /\ ( \/ \E i \in 2..Len(r) : r[i] # 0
                       \/ (q # <<>> /\ q[Len(q)] % 2 = 1) )
    THEN lstrip(reverse(plus(reverse(q), <<1>>, 0, 10)), {0})
    ELSE lstrip(q, {0})

\* digits / 10^n rounded to the nearest whole number, for n >= 1
divide_pow10(digits, n) ==
    round_half_even(SubSeq(pad_left(digits, n), 1, Len(pad_left(digits, n)) - n),
                    SubSeq(pad_left(digits, n), Len(pad_left(digits, n)) - n + 1,
                           Len(pad_left(digits, n))))

\* the number of units of 2^-1074 nearest to |m| * 10^e, for e < 0
subnormal_units(m, e) ==
    divide_pow10(decimal_digits(times(TwoTo1074, IntLimbs(Abs(m)))), 0 - e)

subnormal_float(m, e) ==
    IF subnormal_units(m, e) = <<>> THEN Finite(0, 0)
    ELSE Subnormal(m < 0, subnormal_units(m, e))

\* the float m * 10^e rounds to: an infinity above the largest float
\* (1.7976931348623157e308), zero below 1e-324, the nearest multiple of
\* 2^-1074 below the smallest normal float, else the value itself
round_to_float(m, e) ==
    LET x == normal(m, e)
    IN  IF x.m = 0 THEN x
        ELSE IF \/ magnitude(x) > 309
                \/ magnitude(x) = 309 /\ leading9(x) > 179769313
             THEN IF x.m < 0 THEN NegInf ELSE Inf
        ELSE IF magnitude(x) < 0 - 323 THEN Finite(0, 0)
        ELSE IF \/ magnitude(x) < 0 - 307
                \/ magnitude(x) = 0 - 307 /\ leading9(x) <= 222507385
             THEN subnormal_float(x.m, x.e)
        ELSE x

\* a < b for the digits of two whole numbers
units_less(a, b) ==
    \/ Len(a) < Len(b)
    \/ /\ Len(a) = Len(b)
       /\ \E i \in 1..Len(a) : a[i] < b[i] /\ \A j \in 1..(i - 1) : a[j] = b[j]

\* |a| < |b| for finite non-zero a and b
magnitude_less(a, b) ==
    IF a.k = "subnormal" THEN b.k # "subnormal" \/ units_less(a.units, b.units)
    ELSE IF b.k = "subnormal" THEN FALSE
    ELSE IF magnitude(a) # magnitude(b) THEN magnitude(a) < magnitude(b)
    ELSE leading9(a) < leading9(b)

\* the sign bit of a finite non-zero float
negative_float(x) == IF x.k = "subnormal" THEN x.negative ELSE x.m < 0

\* a < b for floats; every comparison with NaN is false
float_lt(a, b) ==
    IF a = NaN \/ b = NaN \/ a = b THEN FALSE
    ELSE IF a = NegInf \/ b = Inf THEN TRUE
    ELSE IF a = Inf \/ b = NegInf THEN FALSE
    ELSE IF a = Finite(0, 0) THEN ~negative_float(b)
    ELSE IF b = Finite(0, 0) THEN negative_float(a)
    ELSE IF negative_float(a) THEN ~negative_float(b) \/ magnitude_less(b, a)
    ELSE ~negative_float(b) /\ magnitude_less(a, b)

\* the characters float() strips from both ends of a text: U+0009 to
\* U+000D, U+0020, U+0085, U+00A0
FloatWhitespace == {"\t", "\n", "", "\f", "\r", " ", "", " "}

\* decimal digits, with single underscores allowed between two digits
digitpart(s) ==
    /\ s # <<>>
    /\ isdecimal_char(s[1])
    /\ isdecimal_char(s[Len(s)])
    /\ \A i \in 1..Len(s) :
          isdecimal_char(s[i]) \/ (s[i] = "_" /\ isdecimal_char(s[i + 1]))

remove_underscores(s) == SelectSeq(s, LAMBDA c : c # "_")

\* the index of the first character of s that is in chars, Len(s) + 1 if none
find_first(s, chars) ==
    LET hits == {i \in 1..Len(s) : s[i] \in chars}
    IN  IF hits = {} THEN Len(s) + 1
        ELSE CHOOSE i \in hits : \A j \in hits : i <= j

\* a text without its leading sign
unsigned(s) == IF s # <<>> /\ Head(s) \in {"+", "-"} THEN Tail(s) ELSE s

\* the value of the digits of an exponent, its sign applied
exponent_value(exponent) ==
    IF exponent # <<>> /\ Head(exponent) = "-"
    THEN 0 - DigitsVal(remove_underscores(unsigned(exponent)))
    ELSE DigitsVal(remove_underscores(unsigned(exponent)))

\* the float written with the given digits, the last frac_len of them after
\* the point, times 10^exp
decimal_value(digits, frac_len, exp, negative) ==
    LET significant == rstrip(digits, {"0"})
    IN  round_to_float(IF negative THEN 0 - DigitsVal(significant)
                                   ELSE DigitsVal(significant),
                       exp - frac_len + (Len(digits) - Len(significant)))

\* a decimal literal given by its integer part, its fraction and its
\* exponent (has_exp tells whether an "e" was written)
decimal_literal(ip, fp, has_exp, exponent, negative) ==
    IF /\ ip = <<>> \/ digitpart(ip)
       /\ fp = <<>> \/ digitpart(fp)
       /\ ip # <<>> \/ fp # <<>>
       /\ ~has_exp \/ digitpart(unsigned(exponent))
    THEN [ok |-> TRUE,
          val |-> decimal_value(remove_underscores(ip) \o remove_underscores(fp),
                                Len(remove_underscores(fp)),
                                exponent_value(exponent), negative)]
    ELSE [ok |-> FALSE, exc |-> "ValueError"]

\* the mantissa is split at its first "."
float_of_mantissa(mantissa, has_exp, exponent, negative) ==
    decimal_literal(SubSeq(mantissa, 1, find_first(mantissa, {"."}) - 1),
                    SubSeq(mantissa, find_first(mantissa, {"."}) + 1, Len(mantissa)),
                    has_exp, exponent, negative)

\* the text after the sign: inf, infinity or nan in any letter case, or a
\* decimal literal, split at its first "e" or "E"
float_of_unsigned(body, negative) ==
    IF lower(body) \in {<<"i","n","f">>, <<"i","n","f","i","n","i","t","y">>}
    THEN [ok |-> TRUE, val |-> IF negative THEN NegInf ELSE Inf]
    ELSE IF lower(body) = <<"n","a","n">>
    THEN [ok |-> TRUE, val |-> NaN]
    ELSE float_of_mantissa(SubSeq(body, 1, find_first(body, {"e", "E"}) - 1),
                           find_first(body, {"e", "E"}) <= Len(body),
                           SubSeq(body, find_first(body, {"e", "E"}) + 1, Len(body)),
                           negative)

\* the text without its surrounding whitespace: an optional sign first
float_of_stripped(t) ==
    float_of_unsigned(unsigned(t), t # <<>> /\ Head(t) = "-")

\* float(text): surrounding whitespace and a sign, then inf, infinity or
\* nan in any letter case, or a decimal literal with an optional fraction
\* and an optional exponent; anything else raises ValueError
float_of_text(s) == float_of_stripped(strip(s, FloatWhitespace))

\* float(price)
float(price) ==
    CASE price.k = "num" -> [ok |-> TRUE, val |-> normal(price.n, 0 - 1)]
      [] price.k = "str" -> float_of_text(price.s)
      [] OTHER -> [ok |-> FALSE, exc |-> "TypeError"]

\* the nested parse_price: a result, or the exception that escapes it
parse_price(price) ==
    IF notna(price)
    THEN LET f == float(price)
         IN  IF f.ok THEN [raised |-> FALSE, val |-> f.val]
             ELSE IF f.exc \in {"ValueError", "TypeError"}
                  THEN [raised |-> FALSE, val |-> Finite(0, 0)]
                  ELSE [raised |-> TRUE, exc |-> f.exc]
    ELSE [raised |-> FALSE, val |-> Finite(0, 0)]

\* min in place of max
max_smaller(a, b) == IF float_lt(b, a) THEN b ELSE a

\* max(a, b) of two floats: b when b > a, else a
max(a, b) == IF float_lt(a, b) THEN b ELSE a

get_max_price(national_price, sa_price) ==
    LET n == parse_price(national_price)
        s == parse_price(sa_price)
    IN  IF n.raised THEN n
        ELSE IF s.raised THEN s
        ELSE [raised |-> FALSE, val |-> max(n.val, s.val)]

----------------------------------------------------------------------------
(* Inputs: header rows, cells and rows of the workbooks that are ingested *)

Earthworks == <<"E","a","r","t","h","w","o","r","k","s">>
Excavation == <<"E","x","c","a","v","a","t","i","o","n">>
NoteSeeBelow == <<"N","O","T","E",":"," ","s","e","e"," ","b","e","l","o","w">>
StarImportant == <<"*","*"," ","I","m","p","o","r","t","a","n","t">>
NoteColon == <<"N","O","T","E",":">>
CodeA1 == <<"A","1">>
Timber2x4 == <<"2","x","4"," ","t","i","m","b","e","r">>
Blank == <<" "," ">>
\* "École" between a no-break space (U+00A0) and a carriage return
Ecole == <<" ","É","c","o","l","e","\r">>
M3 == <<"m","3">>

ItemHeader == Str(<<"I","t","e","m">>)
UnitHeader == Str(<<"U","n","i","t">>)
NationalHeader == Str(<<"N","a","t","i","o","n","a","l"," ","P","r","i","c","e">>)
SaHeader == Str(<<"S","A"," ","P","r","i","c","e">>)
UnnamedHeader == Str(<<"U","n","n","a","m","e","d",":"," ","1">>)
CodeHeader == Str(<<"C","o","d","e">>)
DescriptionHeader == Str(<<"D","e","s","c","r","i","p","t","i","o","n">>)

\* df.columns of a sheet: the usual layout, one without a unit column, one
\* without an item column, and one whose item column is the second column
Headers ==
    { <<ItemHeader, UnitHeader, NationalHeader, SaHeader>>,
      <<ItemHeader, UnnamedHeader, NationalHeader, SaHeader>>,
      <<DescriptionHeader, UnitHeader, NationalHeader, SaHeader>>,
      <<CodeHeader, ItemHeader, UnitHeader, NationalHeader>> }

\* first-column cells: texts, a number, a date and the empty cell
LabelCells ==
    { Str(Earthworks), Str(Excavation), Str(NoteSeeBelow), Str(StarImportant),
      Str(Timber2x4), Str(<<"3">>), Str(Blank), Str(Ecole), Num(30), NaN }

\* the unit and the two price cells of a row: all empty, or all filled
RestOfRow ==
    { <<NaN, NaN, NaN>>, <<Str(M3), Num(1000), Num(1200)>> }

\* a row of a sheet that keeps a numeric code before the item text
CodedRow == <<Num(10), Str(Earthworks), NaN, NaN>>

\* rows with a note in the label cell: a bare "NOTE:" beside a unit, and a
\* note under the item header of a sheet that keeps a code before it
NoteRow == <<Str(NoteColon), Str(M3), Num(1000), Num(1200)>>
CodedNoteRow == <<Str(CodeA1), Str(NoteSeeBelow), NaN, NaN>>

Rows ==
    { <<l>> \o r : l \in LabelCells, r \in RestOfRow }
        \cup {CodedRow, NoteRow, CodedNoteRow}

RECURSIVE Sum(_)
Sum(s) == IF s = <<>> THEN 0 ELSE Head(s) + Sum(Tail(s))

\* the sheets of a workbook, each given by its number of data rows
Workbooks ==
    { w \in UNION { [1..n -> 0..MaxRows] : n \in 1..MaxSheets } : Sum(w) <= MaxRows }

----------------------------------------------------------------------------
(* DataIngestionApp.process_data and _process_sheet *)

NoText == None
NoPrices == <<None, None>>

\* if v: for None and for texts
truthy(v) == v # None /\ v # Str(<<>>)

\* a key of DISCIPLINE_MAP; the run does not depend on which of the six
DisciplineKeys == { <<"e">> }

NewDb == <<"n","e","w",".","d","b">>
OldDb == <<"o","l","d",".","d","b">>
BookXlsx == <<"b","o","o","k",".","x","l","s","x">>

\* the database files that can be selected: one that does not exist yet,
\* and one that holds a cost_categories table made before, with the
\* columns the INSERT statements name
DatabaseFiles ==
    { [path |-> NewDb, tables |-> {}],
      [path |-> OldDb, tables |-> {"cost_categories"}] }

\* DatabaseManager.initialize_database on a file with the given tables:
\* COST_CATEGORIES_SCHEMA declares a foreign key on disciplines_id, a
\* column the table does not have, so CREATE TABLE IF NOT EXISTS raises
\* unless the table exists; COST_ELEMENTS_SCHEMA is run only after it
initialize_database(tables) ==
    IF "cost_categories" \in tables
    THEN [tables |-> tables \cup {"cost_elements"}, error |-> FALSE]
    ELSE [tables |-> tables, error |-> TRUE]

\* _execute_sql of an INSERT into the given table: the log entry it makes
\* when the statement raises
execute_sql_errors(table, sheet) ==
    IF table \in db_tables THEN <<>>
    ELSE <<[msg |-> "Error executing SQL", sheet |-> sheet]>>

\* _validate_inputs: the message it logs, or None when it returns True
validate_inputs ==
    IF ~truthy(discipline) THEN Str("Error: Please select a discipline.")
    ELSE IF ~truthy(db_path) THEN Str("Error: Please select a database file.")
    ELSE IF ~truthy(excel_path) THEN Str("Error: Please select an Excel file.")
    ELSE None

Init ==
    /\ pc = "start"
    /\ discipline = Str(<<>>)
    /\ db_path = Str(<<>>)
    /\ excel_path = None
    /\ db_tables = {}
    /\ sheet_lengths = <<>>
    /\ sheet_no = 0
    /\ columns = <<>>
    /\ column_indices = <<>>
    /\ row_no = 0
    /\ row = <<>>
    /\ processed_row = None
    /\ category_counter = 0
    /\ sheet_category_counter = 0
    /\ current_category_id = None
    /\ found_categories = <<>>
    /\ emitted = <<>>
    /\ error_log = <<>>
    /\ text_in = NoText /\ text_out = NoText /\ text_out2 = NoText
    /\ price_in = NoPrices /\ price_out = None

\* a discipline radio button is chosen
SelectDiscipline ==
    /\ pc = "start"
    /\ \E d \in DisciplineKeys : discipline' = Str(d)
    /\ UNCHANGED <<pc, db_path, excel_path, db_tables, ingest_vars,
                   text_vars, price_vars>>

\* select_database with a path chosen in the dialog; the button works
\* every time, and the log holds at most MaxInitErrors entries of
\* initialize_database
select_database ==
    /\ pc = "start"
    /\ \E f \in DatabaseFiles :
        /\ initialize_database(f.tables).error => Len(error_log) < MaxInitErrors
        /\ db_path' = Str(f.path)
        /\ db_tables' = initialize_database(f.tables).tables
        /\ error_log' = IF initialize_database(f.tables).error
                        THEN Append(error_log,
                                [msg |-> "Error initializing database", sheet |-> 0])
                        ELSE error_log
    /\ UNCHANGED <<pc, discipline, excel_path, sheet_lengths, sheet_no, columns,
                   column_indices, row_no, row, processed_row, category_counter,
                   sheet_category_counter, current_category_id, found_categories,
                   emitted, text_vars, price_vars>>

\* select_excel with a path chosen in the dialog
select_excel ==
    /\ pc = "start"
    /\ excel_path' = Str(BookXlsx)
    /\ UNCHANGED <<pc, discipline, db_path, db_tables, ingest_vars,
                   text_vars, price_vars>>

\* process_data when _validate_inputs returns False: the message is
\* logged and process_data returns
RejectInputs ==
    /\ pc = "start"
    /\ validate_inputs # None
    /\ error_log' = Append(error_log, [msg |-> validate_inputs.s, sheet |-> 0])
    /\ pc' = "returned"
    /\ UNCHANGED <<app_vars, sheet_lengths, sheet_no, columns, column_indices,
                   row_no, row, processed_row, category_counter,
                   sheet_category_counter, current_category_id, found_categories,
                   emitted, text_vars, price_vars>>

\* process_data up to the sheet loop: the inputs are valid and the
\* workbook is opened
OpenWorkbook ==
    /\ pc = "start"
    /\ validate_inputs = None
    /\ \E w \in Workbooks : sheet_lengths' = w
    /\ category_counter' = 0
    /\ found_categories' = <<>>
    /\ pc' = "sheets"
    /\ UNCHANGED <<app_vars, sheet_no, columns, column_indices, row_no, row,
                   processed_row, sheet_category_counter, current_category_id,
                   emitted, error_log, text_vars, price_vars>>

\* pd.ExcelFile(file_path) raises: caught by process_data's except
OpenFails ==
    /\ pc = "start"
    /\ validate_inputs = None
    /\ error_log' = Append(error_log, [msg |-> "Error processing data", sheet |-> 0])
    /\ pc' = "aborted"
    /\ UNCHANGED <<app_vars, sheet_lengths, sheet_no, columns, column_indices,
                   row_no, row, processed_row, category_counter,
                   sheet_category_counter, current_category_id, found_categories,
                   emitted, text_vars, price_vars>>

\* the call of _process_sheet for the next sheet, up to its row loop
BeginSheet ==
    /\ pc = "sheets"
    /\ sheet_no < Len(sheet_lengths)
    /\ sheet_no' = sheet_no + 1
    /\ \E headers \in Headers :
        /\ columns' = headers
        /\ column_indices' = find_column_indices(headers)
    /\ sheet_category_counter' = category_counter
    /\ row_no' = 0
    /\ row' = <<>>
    /\ processed_row' = None
    /\ IF column_indices'[1] = None \/ column_indices'[2] = None
       THEN /\ error_log' = Append(error_log,
                    [msg |-> "Required columns not found", sheet |-> sheet_no'])
            /\ pc' = "sheets"
            /\ UNCHANGED current_category_id
       ELSE /\ current_category_id' = None
            /\ pc' = "rows"
            /\ UNCHANGED error_log
    /\ UNCHANGED <<app_vars, sheet_lengths, category_counter, found_categories,
                   emitted, text_vars, price_vars>>

\* excel_proc.process_sheet(sheet_name) raises: nothing in _process_sheet
\* catches it, so it reaches process_data's except and ends the run
SheetReadFails ==
    /\ pc = "sheets"
    /\ sheet_no < Len(sheet_lengths)
    /\ sheet_no' = sheet_no + 1
    /\ sheet_category_counter' = category_counter
    /\ error_log' = Append(error_log,
            [msg |-> "Error processing data", sheet |-> sheet_no'])
    /\ pc' = "aborted"
    /\ UNCHANGED <<app_vars, sheet_lengths, columns, column_indices, row_no, row,
                   processed_row, category_counter, current_category_id,
                   found_categories, emitted, text_vars, price_vars>>

\* found_categories[key] = value
dict_set(d, key, value) ==
    [x \in (DOMAIN d) \cup {key} |-> IF x = key THEN value ELSE d[x]]

\* one iteration of the row loop of _process_sheet
ProcessRow ==
    /\ pc = "rows"
    /\ row_no < sheet_lengths[sheet_no]
    /\ row_no' = row_no + 1
    /\ \E r \in Rows :
        /\ row' = r
        /\ processed_row' = process_row(r, column_indices)
    /\ IF processed_row' = None
       THEN UNCHANGED <<sheet_category_counter, current_category_id,
                        found_categories, emitted, error_log>>
       ELSE IF processed_row'.type = "category"
       THEN /\ sheet_category_counter' = sheet_category_counter + 1
            /\ current_category_id' = Str(format_03d(sheet_category_counter'))
            /\ emitted' = Append(emitted,
                    [call |-> "insert_category",
                     category_id |-> current_category_id'.s,
                     name |-> processed_row'.name,
                     sheet |-> sheet_no])
            /\ error_log' = error_log \o execute_sql_errors("cost_categories", sheet_no)
            /\ found_categories' =
                    dict_set(found_categories, current_category_id'.s,
                             processed_row'.name)
       ELSE IF processed_row'.type = "item" /\ current_category_id # None
       THEN /\ emitted' = Append(emitted,
                    [call |-> "insert_cost_element",
                     name |-> processed_row'.name,
                     unit |-> processed_row'.unit,
                     price |-> get_max_price(processed_row'.national_price,
                                             processed_row'.sa_price),
                     category_id |-> current_category_id.s,
                     sheet |-> sheet_no])
            /\ error_log' = error_log \o execute_sql_errors("cost_elements", sheet_no)
            /\ UNCHANGED <<sheet_category_counter, current_category_id,
                           found_categories>>
       ELSE UNCHANGED <<sheet_category_counter, current_category_id,
                        found_categories, emitted, error_log>>
    /\ UNCHANGED <<pc, app_vars, sheet_lengths, sheet_no, columns, column_indices,
                   category_counter, text_vars, price_vars>>

\* the row loop ends and _process_sheet returns its counter; process_data
\* does not use the returned value
EndSheet ==
    /\ pc = "rows"
    /\ row_no = sheet_lengths[sheet_no]
    /\ pc' = "sheets"
    /\ UNCHANGED <<app_vars, ingest_vars, text_vars, price_vars>>

\* the sheet loop of process_data ends
FinishRun ==
    /\ pc = "sheets"
    /\ sheet_no = Len(sheet_lengths)
    /\ pc' = "done"
    /\ UNCHANGED <<app_vars, ingest_vars, text_vars, price_vars>>

Next ==
    \/ SelectDiscipline
    \/ select_database
    \/ select_excel
    \/ RejectInputs
    \/ OpenWorkbook
    \/ OpenFails
    \/ BeginSheet
    \/ SheetReadFails
    \/ ProcessRow
    \/ EndSheet
    \/ FinishRun

Spec == Init /\ [][Next]_vars

----------------------------------------------------------------------------
(* clean_text applied to a text and then to its own result *)

\* a letter, a space, a no-break space (U+00A0) and three of the characters
\* clean_text strips
TextAlphabet == {"a", " ", " ", "*", "-", "."}

GeneratedTexts == UNION { [1..n -> TextAlphabet] : n \in 0..MaxLen }

CleanInputs ==
    {None} \cup {Str(t) : t \in GeneratedTexts}
           \cup {Str(Earthworks), Str(NoteSeeBelow), Str(StarImportant)}

IngestIdle ==
    /\ discipline = Str(<<>>)
    /\ db_path = Str(<<>>)
    /\ excel_path = None
    /\ db_tables = {}
    /\ sheet_lengths = <<>>
    /\ sheet_no = 0
    /\ columns = <<>>
    /\ column_indices = <<>>
    /\ row_no = 0
    /\ row = <<>>
    /\ processed_row = None
    /\ category_counter = 0
    /\ sheet_category_counter = 0
    /\ current_category_id = None
    /\ found_categories = <<>>
    /\ emitted = <<>>
    /\ error_log = <<>>

InitClean ==
    /\ pc = "clean"
    /\ IngestIdle
    /\ text_in \in CleanInputs
    /\ text_out = NoText /\ text_out2 = NoText
    /\ price_in = NoPrices /\ price_out = None

CleanOnce ==
    /\ pc = "clean"
    /\ text_out' = clean_text(text_in)
    /\ pc' = "cleaned"
    /\ UNCHANGED <<app_vars, ingest_vars, text_in, text_out2, price_vars>>

CleanAgain ==
    /\ pc = "cleaned"
    /\ text_out2' = clean_text(text_out)
    /\ pc' = "recleaned"
    /\ UNCHANGED <<app_vars, ingest_vars, text_in, text_out, price_vars>>

NextClean == CleanOnce \/ CleanAgain

SpecClean == InitClean /\ [][NextClean]_vars

----------------------------------------------------------------------------
(* get_max_price applied to a pair of price cells *)

\* price cells: empty, None, a date, numbers, and texts; among the texts
\* are those float() reads as NaN, as an infinity, with an exponent, with
\* an underscore, with two fractional digits and with a trailing U+000D
PriceCells ==
    { NaN, None, Date,
      Num(-50), Num(-30), Num(0), Num(1000), Num(1200),
      Str(<<"1","2",".","5">>), Str(<<"7">>), Str(<<" ","7"," ">>),
      Str(<<"-","3">>), Str(<<"a","b","c">>), Str(<<>>), Str(M3),
      Str(<<"N","A","N">>), Str(<<"i","n","f">>), Str(<<"-","I","n","f">>),
      Str(<<"1","e","3">>), Str(<<"1","_","0">>), Str(<<"1",".","2","5">>),
      Str(<<"7","\r">>),
      Str(<<"3","e","-","3","2","4">>), Str(<<"5","e","-","3","2","4">>) }

InitPrice ==
    /\ pc = "price"
    /\ IngestIdle
    /\ text_in = NoText /\ text_out = NoText /\ text_out2 = NoText
    /\ price_in \in PriceCells \X PriceCells
    /\ price_out = None

CallGetMaxPrice ==
    /\ pc = "price"
    /\ price_out' = get_max_price(price_in[1], price_in[2])
    /\ pc' = "priced"
    /\ UNCHANGED <<app_vars, ingest_vars, text_vars, price_in>>

NextPrice == CallGetMaxPrice

SpecPrice == InitPrice /\ [][NextPrice]_vars

----------------------------------------------------------------------------
(* Vocabulary of the specification document, used to state its properties *)

\* a step of the row loop
RowStep == pc = "rows" /\ row_no' = row_no + 1

\* the label cell of a row: the cell under the header found for "item"
LabelCell(r) == iloc(r, column_indices[1].n)

\* section 4.1: normalize(raw), absent being None
Normalized(r) == clean_text(LabelCell(r))

\* section 4.4: has_unit, from presence and non-emptiness of the unit cell
HasUnit(r) ==
    LET u == iloc(r, column_indices[2].n)
    IN  u.k = "str" /\ strip(u.s, Whitespace) # <<>>

\* section 4.2: classify(text, has_unit)
Classify(text, has_unit) ==
    IF Len(text) < 2 THEN "Noise"
    ELSE IF matches_invalid_pattern(text) THEN "Noise"
    ELSE IF has_unit THEN "Item"
    ELSE IF ~isalnum(text[1]) THEN "Noise"
    ELSE IF isdigit(remove_dots(text)) THEN "Noise"
    ELSE "Category"

\* the label of a row as the document classifies it
RowClass(r) ==
    IF Normalized(r) = None THEN "Absent"
    ELSE Classify(Normalized(r).s, HasUnit(r))

IsCategoryCall(e) == e.call = "insert_category"
IsItemCall(e) == e.call = "insert_cost_element"

Last(s) == s[Len(s)]

\* the records emitted before the current sheet was begun
EmittedBeforeSheet == SelectSeq(emitted, LAMBDA e : e.sheet < sheet_no)

----------------------------------------------------------------------------
(* C1: the category ids emitted in one run are strictly increasing in      *)
(* emission order, across sheet boundaries.  Violated: process_data drops  *)
(* the counter returned by _process_sheet, so every sheet starts at 001.   *)
C1_IdsIncreaseAcrossSheets ==
    \A i, j \in 1..Len(emitted) :
        (i < j /\ IsCategoryCall(emitted[i]) /\ IsCategoryCall(emitted[j]))
            => DigitsVal(emitted[i].category_id) < DigitsVal(emitted[j].category_id)

(* C2: a row classified Category followed by a row classified Item yields  *)
(* a category record with a 3-digit id and then an item record in that     *)
(* category priced at the larger price cell.  Violated: process_row        *)
(* returns the second row as a category too.                               *)
C2_CategoryThenItem ==
    [][ ( /\ RowStep
          /\ row_no >= 1
          /\ RowClass(row) = "Category"
          /\ RowClass(row') = "Item" )
        => ( /\ Len(emitted) >= 1
             /\ IsCategoryCall(Last(emitted))
             /\ Last(emitted).name = Normalized(row).s
             /\ Len(Last(emitted).category_id) = 3
             /\ isdigit(Last(emitted).category_id)
             /\ Len(emitted') = Len(emitted) + 1
             /\ IsItemCall(Last(emitted'))
             /\ Last(emitted').category_id = Last(emitted).category_id
             /\ Last(emitted').price = get_max_price(row'[3], row'[4]) ) ]_vars

(* C3: for a label of length >= 2 matching no noise pattern, a row with a  *)
(* unit is classified Item and a row without one is classified Category    *)
(* exactly when the label starts alphanumeric and is not all digits.       *)
(* Violated: process_row never looks at the unit cell.                     *)
C3_UnitDecidesClass ==
    ( /\ pc = "rows"
      /\ row_no >= 1
      /\ Normalized(row) # None
      /\ Len(Normalized(row).s) >= 2
      /\ ~matches_invalid_pattern(Normalized(row).s) )
    => IF HasUnit(row)
       THEN processed_row # None /\ processed_row.type = "item"
       ELSE (processed_row # None /\ processed_row.type = "category")
                <=> ( /\ isalnum(Normalized(row).s[1])
                      /\ ~isdigit(remove_dots(Normalized(row).s)) )

(* C4: when the sheets before the current one ended in a category and the  *)
(* first row of the current sheet is an Item, that item is emitted in the  *)
(* carried-over category.  Violated: _process_sheet starts every sheet     *)
(* with current_category_id = None and process_row returns no item.        *)
C4_CategoryCarriesAcrossSheets ==
    ( /\ pc = "rows"
      /\ row_no = 1
      /\ EmittedBeforeSheet # <<>>
      /\ IsCategoryCall(Last(EmittedBeforeSheet))
      /\ RowClass(row) = "Item" )
    => ( /\ Len(emitted) = Len(EmittedBeforeSheet) + 1
         /\ IsItemCall(Last(emitted))
         /\ Last(emitted).category_id = Last(EmittedBeforeSheet).category_id )

(* C5: an item record is emitted only while a current category is set and  *)
(* carries the id of the latest category record; an Item row met while no  *)
(* category is set emits nothing.  Violated: an Item row met with no       *)
(* category set is emitted as a category.                                  *)
C5_ItemsOnlyInsideCategory ==
    [][ RowStep =>
        /\ (Len(emitted') > Len(emitted) /\ IsItemCall(Last(emitted')))
              => ( /\ current_category_id # None
                   /\ \E i \in 1..Len(emitted) :
                        /\ IsCategoryCall(emitted[i])
                        /\ \A j \in (i + 1)..Len(emitted) : ~IsCategoryCall(emitted[j])
                        /\ Last(emitted').category_id = emitted[i].category_id )
        /\ (current_category_id = None /\ RowClass(row') = "Item")
              => emitted' = emitted ]_vars

(* C6: a row whose label cell is empty, missing or not text is skipped: no *)
(* record, counter and current category unchanged.  Violated: the empty    *)
(* cell is read as the text "nan" and emitted as a category.               *)
C6_AbsentLabelSkipped ==
    [][ (RowStep /\ Normalized(row') = None)
        => UNCHANGED <<emitted, sheet_category_counter, current_category_id>> ]_vars

(* C7: a row whose label text, the text of the cell under the item        *)
(* header, matches one of the nine noise patterns is skipped, with or      *)
(* without a unit: process_row returns nothing for it, no record is        *)
(* emitted, and the category counter and the current category are left     *)
(* alone.  Violated: the patterns are tried on the cleaned text of the     *)
(* first cell, so "NOTE:" is cleaned to "NOTE" and becomes a category,     *)
(* and a note under the item header of a coded sheet is never looked at.   *)
C7_NoiseRowsSkipped ==
    [][ ( /\ RowStep
          /\ LabelCell(row').k = "str"
          /\ matches_invalid_pattern(LabelCell(row').s) )
        => /\ processed_row' = None
           /\ UNCHANGED <<emitted, sheet_category_counter, current_category_id,
                          found_categories>> ]_vars

----------------------------------------------------------------------------
(* C8: clean_text is idempotent.  Violated: the special characters are     *)
(* stripped once, before the last whitespace strip, so "* -a" cleans to    *)
(* "-a" and that cleans to "a".                                            *)
C8_CleanTextIdempotent ==
    pc = "recleaned" => text_out2 = text_out

----------------------------------------------------------------------------
\* what section 4.3 says an input parses to: 0 for a missing or a
\* non-numeric input (a text that reads as NaN is not a number), else its
\* value
Zero == Finite(0, 0)
IsMissing(v) == v.k \in {"nan", "None"}
IsNumeric(v) ==
    \/ v.k = "num"
    \/ v.k = "str" /\ float_of_text(v.s).ok /\ float_of_text(v.s).val # NaN
ParsedValue(v) ==
    IF IsMissing(v) \/ ~IsNumeric(v) THEN Zero ELSE float(v).val

Larger(a, b) == IF float_lt(b, a) THEN a ELSE b

(* C9: get_max_price returns the larger of its two inputs, each parsed     *)
(* on its own with a missing or non-numeric input taken as 0, and never    *)
(* raises.  Violated: the text "NAN" parses to the float NaN, and          *)
(* max(NaN, 5.0) is NaN while max(5.0, NaN) is 5.0.                        *)
C9_MaxOfParsedPrices ==
    pc = "priced" =>
        /\ ~price_out.raised
        /\ price_out.val = Larger(ParsedValue(price_in[1]), ParsedValue(price_in[2]))

\* what float() makes of an input, 0 standing for a missing or unreadable one
ReadValue(v) ==
    IF IsMissing(v) \/ ~float(v).ok THEN Zero ELSE float(v).val

IsNegative(x) == float_lt(x, Zero)
IsNonNegative(x) == x = Zero \/ float_lt(Zero, x)

(* C10 as stated: get_max_price never returns a negative value.  Violated  *)
(* by two negative inputs: get_max_price(-5.0, -3.0) is -3.0.              *)
C10_NeverNegative ==
    pc = "priced" => (~price_out.raised /\ ~IsNegative(price_out.val))

(* C10 amended: get_max_price never raises; it returns a negative value    *)
(* whenever both inputs read as negative numbers, and only when neither    *)
(* input reads as a number >= 0 or is missing or unreadable.               *)
C10_NegativeOnlyWithoutNonNegativeInput ==
    pc = "priced" =>
        /\ ~price_out.raised
        /\ (IsNegative(ReadValue(price_in[1])) /\ IsNegative(ReadValue(price_in[2])))
              => IsNegative(price_out.val)
        /\ IsNegative(price_out.val)
              => ( /\ ~IsNonNegative(ReadValue(price_in[1]))
                   /\ ~IsNonNegative(ReadValue(price_in[2])) )

\* two negative inputs give the larger, still negative, one
C10_Witness ==
    /\ pc = "priced"
    /\ price_in = <<Num(-50), Str(<<"-","3">>)>>
    /\ price_out = [raised |-> FALSE, val |-> Finite(0 - 3, 0)]

----------------------------------------------------------------------------
(* C11: the label of a data row is read from the column found for the      *)
(* "item" header: a row whose item cell is a text is classified by that    *)
(* text, so a returned result carries its normalized form as name, and a   *)
(* row the document classifies Category or Item is not skipped.  Violated: *)
(* process_row reads row.iloc[0] and never uses item_idx.                  *)
C11_LabelReadFromItemColumn ==
    ( /\ pc = "rows"
      /\ row_no >= 1
      /\ LabelCell(row).k = "str" )
    => /\ processed_row # None
            => ( /\ Normalized(row) # None
                 /\ processed_row.name = Normalized(row).s )
       /\ RowClass(row) \in {"Category", "Item"} => processed_row # None

----------------------------------------------------------------------------
\* some header of the sheet contains the key, letter case aside
HeaderFound(cols, key) ==
    \E i \in 1..Len(cols) : cols[i].k = "str" /\ contains(lower(cols[i].s), key)

RequiredHeadersFound(cols) ==
    /\ HeaderFound(cols, <<"i","t","e","m">>)
    /\ HeaderFound(cols, <<"u","n","i","t">>)

(* C12: when a sheet is begun whose headers lack an "item" or a "unit"     *)
(* column, nothing is emitted, the category counter is unchanged, the      *)
(* error is reported and control is back in the sheet loop of the run; no  *)
(* row of such a sheet is ever processed.                                  *)
C12_SheetWithoutColumnsSkipped ==
    [][ /\ ( /\ pc = "sheets"
             /\ sheet_no' = sheet_no + 1
             /\ pc' # "aborted"
             /\ ~RequiredHeadersFound(columns') )
           => /\ pc' = "sheets"
              /\ emitted' = emitted
              /\ category_counter' = category_counter
              /\ found_categories' = found_categories
              /\ error_log' = Append(error_log,
                    [msg |-> "Required columns not found", sheet |-> sheet_no'])
        /\ RowStep => RequiredHeadersFound(columns) ]_vars

\* a first sheet with a data row but without a required column was skipped
\* and reported, and the second sheet was processed after it
C12_Witness ==
    /\ pc = "done"
    /\ sheet_lengths = <<1, 1>>
    /\ error_log = <<[msg |-> "Required columns not found", sheet |-> 1]>>
    /\ Len(emitted) = 1
    /\ emitted[1].sheet = 2

----------------------------------------------------------------------------
(* C13: once the workbook is open, no failure inside one sheet ends the    *)
(* run while later sheets remain.  Violated: _process_sheet catches        *)
(* nothing, so an exception raised while a sheet is read reaches the       *)
(* except clause around the whole sheet loop of process_data.              *)
C13_SheetFailureDoesNotEndRun ==
    (pc = "aborted" /\ sheet_lengths # <<>>) => sheet_no = Len(sheet_lengths)

----------------------------------------------------------------------------
\* the generated texts that pass the leading-letter test of process_row
GateTexts ==
    { t \in GeneratedTexts :
        LET c == strip(t, Whitespace) IN c # <<>> /\ isalpha(c[1]) }

\* the two name validators agree on the cleaned form of a text that passes
\* the leading-letter test
ValidatorsAgreeOn(text) ==
    LET cell == strip(text, Whitespace)
        cleaned == clean_text(Str(cell))
    IN  (cell # <<>> /\ isalpha(cell[1]) /\ cleaned # None)
            => (is_valid_category_name(cleaned.s) <=> is_valid_item_name(cleaned.s))

(* C14: process_row never returns a result of type 'item': the validators  *)
(* agree on every text that passes the leading-letter test, every result   *)
(* is a category, and no insert_cost_element call is ever made.            *)
C14_ProcessRowNeverReturnsItem ==
    /\ processed_row # None => processed_row.type = "category"
    /\ \A i \in 1..Len(emitted) : IsCategoryCall(emitted[i])
    /\ (pc = "rows" /\ row_no >= 1) => ValidatorsAgreeOn(str(iloc(row, 0)))
    /\ pc = "start" => \A t \in GateTexts : ValidatorsAgreeOn(t)

\* a priced row with a unit, met inside a category, was returned and
\* emitted as a second category
C14_Witness ==
    /\ pc = "rows"
    /\ row_no = 2
    /\ row = <<Str(Excavation), Str(M3), Num(1000), Num(1200)>>
    /\ processed_row = [type |-> "category", name |-> Excavation]
    /\ Len(emitted) = 2
    /\ emitted[2].category_id = <<"0","0","2">>

====
